---- MODULE Spec2Model ----
(***************************************************************************)
(* gemini-hub-backend/main.py: the save_chat and ai_search_chats handlers,  *)
(* the chats table and the Chroma vector collection they share.            *)
(*                                                                         *)
(* Text is modelled as TLA+ strings: a chunk is the concatenation of the   *)
(* "role: content\n" lines, and its length is the length of that string.   *)
(***************************************************************************)
EXTENDS Integers, Sequences, FiniteSets, TLC

VARIABLES
    chats,              \* the rows of the chats table, in insertion order
    vector_collection,  \* the records of the Chroma collection "gemini_chats"
    GEMINI_API_KEY,     \* the module global read from the environment
    pc,                 \* per request slot: where the save_chat call stands
    conversation,       \* per request slot: the request body
    sql_db_id,          \* per request slot: db_chat.id after the commit
    batch,              \* per request slot: chunks, chunk_ids, metadatas
    response,           \* per request slot: what the call returned
    logged,             \* per request slot: the except branch printed an error
    nsaves,             \* save_chat calls received so far
    search,             \* the most recent ai_search_chats call and its response
    loop                \* one run of the chunking loop, iteration by iteration

vars == <<chats, vector_collection, GEMINI_API_KEY, pc, conversation, sql_db_id,
          batch, response, logged, nsaves, search, loop>>

saveVars == <<chats, vector_collection, GEMINI_API_KEY, pc, conversation,
              sql_db_id, batch, response, logged, nsaves>>

-----------------------------------------------------------------------------
(* Bounds *)

\* messages per conversation fed to the chunking loop
MaxMsgs == 3

\* save_chat calls per behaviour when only saves run
MaxSaves == 2

\* save_chat calls per behaviour when saves and searches run
MaxSavesSearched == 2

\* concurrent save_chat requests
Requests == {"r1", "r2"}

-----------------------------------------------------------------------------
(* Program constants and values *)

\* len(current_chunk) > 500
ChunkThreshold == 500

\* n_results=20
TopK == 20

\* Python's None
None == "<None>"

\* bool(x) for an Optional[str]
Truthy(x) == x # None /\ x # ""

RECURSIVE Rep(_, _)
\* s * n
Rep(s, n) ==
    IF n = 0 THEN ""
    ELSE LET h == Rep(s, n \div 2)
         IN  IF n % 2 = 0 THEN h \o h ELSE h \o h \o s

RECURSIVE Join(_, _)
\* sep.join(strs)
Join(sep, strs) ==
    IF Len(strs) = 0 THEN ""
    ELSE IF Len(strs) = 1 THEN strs[1]
    ELSE strs[1] \o sep \o Join(sep, Tail(strs))

\* dict.get(key, default)
Get(meta, key, default) == IF key \in DOMAIN meta THEN meta[key] ELSE default

-----------------------------------------------------------------------------
(* The chunking loop of save_chat *)

\* f"{msg.role}: {msg.content}\n"
Line(msg) == msg.role \o ": " \o msg.content \o "\n"

\* the chunk id without the parent's id
ChunkId_CounterOnly(id, chunk_counter) == "chunk_" \o ToString(chunk_counter)

\* f"{sql_db_id}_{chunk_counter}"
ChunkId(id, chunk_counter) == ToString(id) \o "_" \o ToString(chunk_counter)

\* the metadata dict without the request's collection
ChunkMeta_DefaultCollection(conv, id, chunk_counter) ==
    [sql_chat_id |-> id,
     title       |-> conv.sidebarTitle,
     url         |-> conv.url,
     chunk_index |-> chunk_counter,
     collection  |-> "Uncategorized"]

\* the metadata dict appended for a chunk
ChunkMeta(conv, id, chunk_counter) ==
    [sql_chat_id |-> id,
     title       |-> conv.sidebarTitle,
     url         |-> conv.url,
     chunk_index |-> chunk_counter,
     collection  |-> conv.collection]

\* the locals before the loop
LoopStart ==
    [chunks |-> <<>>, chunk_ids |-> <<>>, metadatas |-> <<>>,
     current_chunk |-> "", chunk_counter |-> 0]

\* the close condition with >= for >
CloseNow_GE(current_chunk, i, n) ==
    Len(current_chunk) >= ChunkThreshold \/ i = n - 1

\* the close condition without the end-of-conversation flush
CloseNow_NoFlush(current_chunk, i, n) ==
    Len(current_chunk) > ChunkThreshold

\* len(current_chunk) > 500 or i == len(conversation.messages) - 1
CloseNow(current_chunk, i, n) ==
    Len(current_chunk) > ChunkThreshold \/ i = n - 1

\* one iteration of the for loop, i the 0-based enumerate index
ChunkStep(st, conv, id, i) ==
    LET msg == conv.messages[i + 1]
        current_chunk == st.current_chunk \o Line(msg)
    IN  IF CloseNow(current_chunk, i, Len(conv.messages))
        THEN [chunks        |-> Append(st.chunks, current_chunk),
              chunk_ids     |-> Append(st.chunk_ids, ChunkId(id, st.chunk_counter)),
              metadatas     |-> Append(st.metadatas,
                                       ChunkMeta(conv, id, st.chunk_counter)),
              current_chunk |-> "",
              chunk_counter |-> st.chunk_counter + 1]
        ELSE [st EXCEPT !.current_chunk = current_chunk]

RECURSIVE ChunkFrom(_, _, _, _)
\* the iterations i, i+1, ... of the loop
ChunkFrom(st, conv, id, i) ==
    IF i >= Len(conv.messages) THEN st
    ELSE ChunkFrom(ChunkStep(st, conv, id, i), conv, id, i + 1)

\* the whole loop
ChunkAll(conv, id) == ChunkFrom(LoopStart, conv, id, 0)

-----------------------------------------------------------------------------
(* Request bodies *)

\* class Message: the role and content strings used as inputs
Messages ==
    [role : {"user", "model"},
     content : {"", "hi", Rep("a", 493), Rep("b", 494), Rep("c", 600)}]

\* the message lists of at most n messages
MessageLists(n) == UNION {[1..k -> Messages] : k \in 0..n}

\* class Conversation, with the given messages
Conversation(url, collection, messages) ==
    [title        |-> "t:" \o url,
     url          |-> url,
     messages     |-> messages,
     sidebarTitle |-> "s:" \o url,
     collection   |-> collection]

\* the conversations whose messages the chunking loop is run on
LoopConversations == {Conversation("a", "SQL", m) : m \in MessageLists(MaxMsgs)}

\* url values of the save_chat requests; url is any str, the empty one included
Urls == {"", "a"}

\* collection values of the save_chat requests
Collections == {"SQL", "Uncategorized"}

\* message lists of the save_chat requests: none, one chunk, two chunks
SaveMessages ==
    {<<>>,
     <<[role |-> "user", content |-> "hi"]>>,
     <<[role |-> "user", content |-> Rep("b", 494)],
       [role |-> "model", content |-> "hi"]>>}

\* the save_chat request bodies
Conversations ==
    {Conversation(u, c, m) : u \in Urls, c \in Collections, m \in SaveMessages}

\* the save_chat request bodies sent while searches run: both urls, both
\* collections, and message lists of no, one and two chunks
SearchedConversations ==
    {Conversation("a", "SQL", m) :
        m \in {ms \in SaveMessages : Len(ms) = 2}}
    \cup {Conversation("a", "Uncategorized", m) :
        m \in {ms \in SaveMessages : Len(ms) = 1}}
    \cup {Conversation("", "SQL", m) :
        m \in {ms \in SaveMessages : Len(ms) = 1}}
    \cup {Conversation("", "Uncategorized", <<>>)}

\* the slot's conversation before its first request
NoConversation == Conversation("", "Uncategorized", <<>>)

\* class QueryRequest: query and collection_filter values
Queries == {"", "q"}

CollectionFilters == {None, "", "SQL", "Python"}

-----------------------------------------------------------------------------
(* save_chat *)

\* no response yet
NoResponse == [status_code |-> 0]

\* db.query(Chat).filter(Chat.url == url), as the set of row positions
ExistingChat_ByTitle(url) == {k \in 1..Len(chats) : chats[k].title = url}

ExistingChat(url) == {k \in 1..Len(chats) : chats[k].url = url}

\* .first()
First(ks) == chats[CHOOSE k \in ks : \A j \in ks : k <= j]

\* the url column without unique=True
UrlTaken_NotUnique(url) == FALSE

\* url = Column(String, unique=True): the insert conflicts with a committed row
UrlTaken(url) == \E k \in 1..Len(chats) : chats[k].url = url

\* the Chat row built from the request, with the id the table assigns
NewRow(conv) ==
    [id         |-> Len(chats) + 1,
     title      |-> conv.sidebarTitle,
     url        |-> conv.url,
     messages   |-> conv.messages,
     collection |-> conv.collection]

\* the "already saved" response
InfoResponse(existing_chat) ==
    [status_code |-> 200,
     status      |-> "info",
     message     |-> "Chat '" \o existing_chat.title \o "' was already saved.",
     database_id |-> existing_chat.id]

\* an exception that leaves the handler: FastAPI answers 500
ServerError(detail) == [status_code |-> 500, detail |-> detail]

\* a failure in the try block propagating instead of being swallowed
SaveResponse_Propagate(title, id, failed) ==
    IF failed THEN ServerError("embedding/vector DB storage")
    ELSE [status_code |-> 200, status |-> "success",
          message |-> "Saved chat '" \o title \o "'", database_id |-> id]

\* the return after the try/except, reached whether or not the try block failed
SaveResponse(title, id, failed) ==
    [status_code |-> 200,
     status      |-> "success",
     message     |-> "Saved chat '" \o title \o "'",
     database_id |-> id]

\* the existence check; an existing url returns at once
SaveCheck(r, conv) ==
    /\ pc[r] \in {"idle", "done"}
    /\ nsaves' = nsaves + 1
    /\ conversation' = [conversation EXCEPT ![r] = conv]
    /\ sql_db_id' = [sql_db_id EXCEPT ![r] = 0]
    /\ batch' = [batch EXCEPT ![r] = LoopStart]
    /\ logged' = [logged EXCEPT ![r] = FALSE]
    /\ IF ExistingChat(conv.url) # {}
       THEN /\ response' = [response EXCEPT
                              ![r] = InfoResponse(First(ExistingChat(conv.url)))]
            /\ pc' = [pc EXCEPT ![r] = "done"]
       ELSE /\ response' = [response EXCEPT ![r] = NoResponse]
            /\ pc' = [pc EXCEPT ![r] = "commit"]
    /\ UNCHANGED <<chats, vector_collection, GEMINI_API_KEY, search, loop>>

\* db.add, db.commit, db.refresh
SaveCommit(r) ==
    /\ pc[r] = "commit"
    /\ IF UrlTaken(conversation[r].url)
       THEN /\ response' = [response EXCEPT ![r] = ServerError("IntegrityError")]
            /\ pc' = [pc EXCEPT ![r] = "done"]
            /\ UNCHANGED <<chats, sql_db_id>>
       ELSE /\ chats' = Append(chats, NewRow(conversation[r]))
            /\ sql_db_id' = [sql_db_id EXCEPT ![r] = Len(chats) + 1]
            /\ pc' = [pc EXCEPT ![r] = "chunk"]
            /\ UNCHANGED response
    /\ UNCHANGED <<vector_collection, GEMINI_API_KEY, conversation, batch, logged,
                   nsaves, search, loop>>

\* the chunking loop and embedding_model.encode(chunks)
SaveChunk(r, embed_ok) ==
    /\ pc[r] = "chunk"
    /\ LET st == ChunkAll(conversation[r], sql_db_id[r])
           title == chats[sql_db_id[r]].title
       IN  IF st.chunks = <<>>
           THEN /\ response' = [response EXCEPT
                                  ![r] = SaveResponse(title, sql_db_id[r], FALSE)]
                /\ pc' = [pc EXCEPT ![r] = "done"]
                /\ UNCHANGED <<batch, logged>>
           ELSE IF ~embed_ok
           THEN /\ response' = [response EXCEPT
                                  ![r] = SaveResponse(title, sql_db_id[r], TRUE)]
                /\ logged' = [logged EXCEPT ![r] = TRUE]
                /\ pc' = [pc EXCEPT ![r] = "done"]
                /\ UNCHANGED batch
           ELSE /\ batch' = [batch EXCEPT ![r] = st]
                /\ pc' = [pc EXCEPT ![r] = "add"]
                /\ UNCHANGED <<response, logged>>
    /\ UNCHANGED <<chats, vector_collection, GEMINI_API_KEY, conversation,
                   sql_db_id, nsaves, search, loop>>

\* the records of one add call
BatchRecords(st) ==
    {[id       |-> st.chunk_ids[j],
      document |-> st.chunks[j],
      metadata |-> st.metadatas[j]] : j \in 1..Len(st.chunks)}

\* the ids in the collection
StoredIds == {rec.id : rec \in vector_collection}

\* vector_collection.add: a record whose id is already stored is not added again
SaveAdd(r, add_ok) ==
    /\ pc[r] = "add"
    /\ IF add_ok
       THEN /\ vector_collection' = vector_collection \cup
                   {rec \in BatchRecords(batch[r]) : rec.id \notin StoredIds}
            /\ UNCHANGED logged
       ELSE /\ logged' = [logged EXCEPT ![r] = TRUE]
            /\ UNCHANGED vector_collection
    /\ response' = [response EXCEPT
                      ![r] = SaveResponse(chats[sql_db_id[r]].title, sql_db_id[r],
                                          ~add_ok)]
    /\ pc' = [pc EXCEPT ![r] = "done"]
    /\ UNCHANGED <<chats, GEMINI_API_KEY, conversation, sql_db_id, batch, nsaves,
                   search, loop>>

-----------------------------------------------------------------------------
(* ai_search_chats *)

\* the canned answer of the empty result
NoInfoAnswer ==
    "I couldn't find any relevant information in your saved chats to answer that."

\* the notice for a response without parts
EmptyResponseAnswer ==
    "The AI model returned an empty response. This might be due to safety settings or the query itself."

\* "".join(part.text for part in response.parts): whatever the model wrote
GeneratedAnswer == "generated answer"

\* str(genai_error)
GenaiError == "genai error"

\* the query sent without where=
WhereFilter_Ignored(collection_filter) == <<>>

\* where_filter: None (here the empty mapping) unless collection_filter is truthy
WhereFilter(collection_filter) ==
    IF Truthy(collection_filter) THEN [collection |-> collection_filter] ELSE <<>>

\* Chroma's where: equality on every key of the filter
Matching(where_filter) ==
    {rec \in vector_collection :
        \A key \in DOMAIN where_filter : rec.metadata[key] = where_filter[key]}

\* the smaller of two numbers
Min(a, b) == IF a <= b THEN a ELSE b

\* vector_collection.query: up to n_results of the matching records, ranked by
\* distance to the query embedding; the order is the embedding model's
QueryResults(where_filter) ==
    LET S == Matching(where_filter)
        n == Min(TopK, Cardinality(S))
    IN  {f \in [1..n -> S] : \A a, b \in 1..n : a # b => f[a] # f[b]}

\* results['documents'][0]
DocumentsOf(results) == [k \in 1..Len(results) |-> results[k].document]

\* results['metadatas'][0]
MetadatasOf(results) == [k \in 1..Len(results) |-> results[k].metadata]

\* context = "\n---\n".join(results['documents'][0])
Context(results) == Join("\n---\n", DocumentsOf(results))

RECURSIVE UniqueSourcesFrom(_, _, _)
\* the loop over source_metadatas, with unique_sources and seen_urls so far
UniqueSourcesFrom(source_metadatas, unique_sources, seen_urls) ==
    IF source_metadatas = <<>> THEN unique_sources
    ELSE LET meta == Head(source_metadatas)
             url == Get(meta, "url", None)
         IN  IF DOMAIN meta # {} /\ url \notin seen_urls
             THEN UniqueSourcesFrom(
                      Tail(source_metadatas),
                      Append(unique_sources,
                             [title |-> Get(meta, "title", "Unknown Title"),
                              url   |-> url]),
                      seen_urls \cup {url})
             ELSE UniqueSourcesFrom(Tail(source_metadatas), unique_sources,
                                    seen_urls)

\* unique_sources after the loop
UniqueSources(source_metadatas) == UniqueSourcesFrom(source_metadatas, <<>>, {})

\* an answer
Answer(answer, sources) ==
    [status_code |-> 200, answer |-> answer, sources |-> sources]

\* raise HTTPException(status_code=..., detail=...)
HttpError(status_code, detail) == [status_code |-> status_code, detail |-> detail]

\* the Gemini error leaving the inner try and reaching the outer except
Synthesis_Propagate(llm, context, sources) ==
    IF llm = "error"
    THEN HttpError(500, "An internal error occurred during search: " \o GenaiError)
    ELSE IF llm = "parts" THEN Answer(GeneratedAnswer, sources)
    ELSE Answer(EmptyResponseAnswer, sources)

\* the inner try/except around model.generate_content
Synthesis(llm, context, sources) ==
    IF llm = "error"
    THEN Answer("Error generating answer with Gemini: " \o GenaiError
                    \o ". Raw context:\n" \o context, sources)
    ELSE IF llm = "parts" THEN Answer(GeneratedAnswer, sources)
    ELSE Answer(EmptyResponseAnswer, sources)

\* no ai_search_chats call yet
NoSearch ==
    [called |-> FALSE, query |-> "", collection_filter |-> None, fault |-> "none",
     results |-> <<>>, llm |-> "not called", response |-> NoResponse]

\* one ai_search_chats call. fault: which of the embedding call and the vector
\* query raised; results: the ranking the vector query returned; llm: what
\* generate_content did
AiSearch(query, collection_filter, fault, results, llm) ==
    /\ search' =
         [called |-> TRUE, query |-> query, collection_filter |-> collection_filter,
          fault |-> fault, results |-> results,
          llm |-> llm,
          response |->
             IF query = ""
             THEN HttpError(400, "Missing 'query' in request body")
             ELSE IF fault # "none"
             THEN HttpError(500, "An internal error occurred during search: " \o fault)
             ELSE IF results = <<>>
             THEN Answer(NoInfoAnswer, <<>>)
             ELSE IF ~Truthy(GEMINI_API_KEY)
             THEN Answer("Gemini API key not configured. Raw context:\n"
                             \o Context(results),
                         UniqueSources(MetadatasOf(results)))
             ELSE Synthesis(llm, Context(results),
                            UniqueSources(MetadatasOf(results)))]
    /\ UNCHANGED <<saveVars, loop>>

-----------------------------------------------------------------------------
(* The server: concurrent save_chat requests and ai_search_chats calls *)

\* the chunking loop at rest
NoLoop == [conv |-> NoConversation, id |-> 0, i |-> 0, st |-> LoopStart]

Init ==
    /\ chats = <<>>
    /\ vector_collection = {}
    /\ GEMINI_API_KEY \in {None, "key"}
    /\ pc = [r \in Requests |-> "idle"]
    /\ conversation = [r \in Requests |-> NoConversation]
    /\ sql_db_id = [r \in Requests |-> 0]
    /\ batch = [r \in Requests |-> LoopStart]
    /\ response = [r \in Requests |-> NoResponse]
    /\ logged = [r \in Requests |-> FALSE]
    /\ nsaves = 0
    /\ search = NoSearch
    /\ loop = NoLoop

\* the faults a call with this query can meet
FaultsOf(query) ==
    IF query = "" THEN {"none"} ELSE {"none", "embedding", "index"}

\* the rankings the vector query of this call can return
ResultsOf(query, fault, collection_filter) ==
    IF query = "" \/ fault # "none" THEN {<<>>}
    ELSE QueryResults(WhereFilter(collection_filter))

\* what generate_content can do in this call
LlmOf(results) ==
    IF results = <<>> \/ ~Truthy(GEMINI_API_KEY) THEN {"not called"}
    ELSE {"parts", "empty", "error"}

\* an ai_search_chats call with any request body and any behaviour of the
\* embedding model, the vector index and Gemini
AiSearchAny ==
    \E query \in Queries, collection_filter \in CollectionFilters :
      \E fault \in FaultsOf(query) :
        \E results \in ResultsOf(query, fault, collection_filter) :
          \E llm \in LlmOf(results) :
             AiSearch(query, collection_filter, fault, results, llm)

Next ==
    \/ \E r \in Requests, conv \in SearchedConversations :
          nsaves < MaxSavesSearched /\ SaveCheck(r, conv)
    \/ \E r \in Requests : SaveCommit(r)
    \/ \E r \in Requests, embed_ok \in BOOLEAN : SaveChunk(r, embed_ok)
    \/ \E r \in Requests, add_ok \in BOOLEAN : SaveAdd(r, add_ok)
    \/ AiSearchAny

Spec == Init /\ [][Next]_vars

\* concurrent save_chat requests alone, over every request body
SavesNext ==
    \/ \E r \in Requests, conv \in Conversations :
          nsaves < MaxSaves /\ SaveCheck(r, conv)
    \/ \E r \in Requests : SaveCommit(r)
    \/ \E r \in Requests, embed_ok \in BOOLEAN : SaveChunk(r, embed_ok)
    \/ \E r \in Requests, add_ok \in BOOLEAN : SaveAdd(r, add_ok)

SpecSaves == Init /\ [][SavesNext]_vars

-----------------------------------------------------------------------------
(* The chunking loop alone, one iteration per step, over every message list *)

LoopInit ==
    /\ chats = <<>>
    /\ vector_collection = {}
    /\ GEMINI_API_KEY = None
    /\ pc = [r \in Requests |-> "idle"]
    /\ conversation = [r \in Requests |-> NoConversation]
    /\ sql_db_id = [r \in Requests |-> 0]
    /\ batch = [r \in Requests |-> LoopStart]
    /\ response = [r \in Requests |-> NoResponse]
    /\ logged = [r \in Requests |-> FALSE]
    /\ nsaves = 0
    /\ search = NoSearch
    /\ loop \in {[conv |-> c, id |-> 1, i |-> 0, st |-> LoopStart] :
                    c \in LoopConversations}

\* one iteration of the for loop
LoopIter ==
    /\ loop.i < Len(loop.conv.messages)
    /\ loop' = [loop EXCEPT !.st = ChunkStep(loop.st, loop.conv, loop.id, loop.i),
                            !.i = loop.i + 1]
    /\ UNCHANGED <<saveVars, search>>

LoopNext == LoopIter

SpecChunk == LoopInit /\ [][LoopNext]_vars

-----------------------------------------------------------------------------
(* Shorthands of the properties *)

\* the urls of the committed rows
SavedUrls == {chats[k].url : k \in 1..Len(chats)}

\* the requests past their commit and not yet returned
InFlight == {r \in Requests : pc[r] \in {"chunk", "add"}}

\* the ids under which a url has been, or is about to be, written to the index
WritersOf(url) ==
    {rec.metadata.sql_chat_id : rec \in {x \in vector_collection : x.metadata.url = url}}
    \cup {sql_db_id[r] : r \in {x \in InFlight : conversation[x].url = url}}

RECURSIVE TotalLen(_, _)
\* the summed length of the first k strings
TotalLen(strs, k) == IF k = 0 THEN 0 ELSE TotalLen(strs, k - 1) + Len(strs[k])

\* the "role: content\n" lines of the loop's conversation
LoopLines ==
    [k \in 1..Len(loop.conv.messages) |-> Line(loop.conv.messages[k])]

\* the loop has run over every message
LoopDone == loop.i = Len(loop.conv.messages)

\* the messages whose line ends exactly where chunk j ends
EndsOf(j) ==
    {e \in 1..Len(LoopLines) :
        TotalLen(LoopLines, e) = TotalLen(loop.st.chunks, j)}

\* the position of the first metadata with this url
FirstAt(metas, url) ==
    CHOOSE k \in 1..Len(metas) :
        metas[k].url = url /\ \A j \in 1..(k - 1) : metas[j].url # url

\* the last search returned an answer built from retrieved records
Retrieved ==
    /\ search.called
    /\ search.response.status_code = 200
    /\ search.results # <<>>

-----------------------------------------------------------------------------
(* Properties *)

\* C1: a save_chat call whose url is already in the chats table adds no row
\* and no vector record, and returns at once the "already saved" response
\* (status "info") carrying the existing row's id.
C1_ResaveIsNoOp ==
    [][\A r \in Requests, conv \in Conversations :
          (conv.url \in SavedUrls /\ SaveCheck(r, conv)) =>
             /\ chats' = chats
             /\ vector_collection' = vector_collection
             /\ pc'[r] = "done"
             /\ response'[r].status_code = 200
             /\ response'[r].status = "info"
             /\ \E k \in 1..Len(chats) :
                   /\ chats[k].url = conv.url
                   /\ response'[r].database_id = chats[k].id]_vars

C1_Witness ==
    \E r \in Requests :
        /\ pc[r] = "done"
        /\ response[r].status_code = 200
        /\ response[r].status = "info"
        /\ vector_collection # {}

\* C2: a save_chat call whose embedding call or vector add failed still
\* returns the "success" response with the committed row's id, and the row
\* stays in the chats table.
C2_IngestFailureSwallowed ==
    \A r \in Requests :
        (pc[r] = "done" /\ logged[r]) =>
            /\ response[r].status_code = 200
            /\ response[r].status = "success"
            /\ response[r].database_id = sql_db_id[r]
            /\ \E k \in 1..Len(chats) :
                  /\ chats[k].id = sql_db_id[r]
                  /\ chats[k].url = conversation[r].url

C2_Witness ==
    \E r, s \in Requests :
        /\ pc[r] = "done" /\ logged[r] /\ Len(batch[r].chunks) > 0
        /\ pc[s] = "done" /\ logged[s] /\ Len(batch[s].chunks) = 0
        /\ response[r].status_code = 200
        /\ response[s].status_code = 200

\* C5: under any interleaving of save_chat requests, only a request whose
\* insert committed goes on to the vector index, at most one request per url
\* ever does, and a request whose insert failed writes nothing.
C5_OnlyWinnerIngests ==
    /\ \A u \in Urls : Cardinality(WritersOf(u)) <= 1
    /\ \A r \in InFlight :
          /\ sql_db_id[r] \in 1..Len(chats)
          /\ chats[sql_db_id[r]].url = conversation[r].url
    /\ \A r \in Requests :
          (pc[r] = "done" /\ response[r].status_code = 500) =>
              /\ sql_db_id[r] = 0
              /\ batch[r].chunks = <<>>
              /\ \A rec \in vector_collection :
                    rec.metadata.url = conversation[r].url =>
                        \E k \in 1..Len(chats) :
                            /\ chats[k].id = rec.metadata.sql_chat_id
                            /\ chats[k].url = rec.metadata.url

C5_Witness ==
    \E r \in Requests :
        /\ pc[r] = "done"
        /\ response[r] = ServerError("IntegrityError")
        /\ \E rec \in vector_collection : rec.metadata.url = conversation[r].url

\* C9: the chunks of a conversation are numbered 0, 1, ..., k-1 in emission
\* order, each chunk key is the row id joined with that number, and no key
\* handed to the vector collection is one it already holds or one another
\* request hands over.
C9_ChunkKeys ==
    /\ \A r \in Requests :
          pc[r] = "add" =>
             LET st == batch[r]
                 k == Len(st.chunks)
             IN  /\ k > 0
                 /\ Len(st.chunk_ids) = k
                 /\ Len(st.metadatas) = k
                 /\ st.chunk_counter = k
                 /\ \A j \in 1..k :
                       /\ st.metadatas[j].chunk_index = j - 1
                       /\ st.chunk_ids[j] =
                             ToString(sql_db_id[r]) \o "_" \o ToString(j - 1)
                 /\ \A a, b \in 1..k : a # b => st.chunk_ids[a] # st.chunk_ids[b]
                 /\ \A j \in 1..k : st.chunk_ids[j] \notin StoredIds
                 /\ \A s \in Requests \ {r} :
                       pc[s] = "add" =>
                          \A a \in 1..k, b \in 1..Len(batch[s].chunk_ids) :
                             st.chunk_ids[a] # batch[s].chunk_ids[b]
    /\ \A x, y \in vector_collection : x.id = y.id => x = y

C9_Witness ==
    \E r \in Requests :
        /\ pc[r] = "add"
        /\ Len(batch[r].chunks) = 2
        /\ vector_collection # {}

\* C6: when the loop ends, the chunks concatenated in emission order are the
\* "role: content\n" lines of the messages concatenated in their order; no
\* messages give no chunk and one or more messages give at least one chunk.
C6_ChunksRoundTrip ==
    LoopDone =>
        /\ Join("", loop.st.chunks) = Join("", LoopLines)
        /\ Len(loop.conv.messages) = 0 => Len(loop.st.chunks) = 0
        /\ Len(loop.conv.messages) >= 1 => Len(loop.st.chunks) >= 1

C6_Witness ==
    /\ LoopDone
    /\ Len(loop.st.chunks) >= 2
    /\ Len(loop.conv.messages) > Len(loop.st.chunks)

\* C7: every chunk but the last is longer than 500 characters and is at most
\* 500 characters long without its final message line; the last chunk ends
\* with the last message whatever its length, and the buffer is empty when
\* the loop ends.
C7_ChunkBoundaries ==
    /\ \A j \in 1..Len(loop.st.chunks) :
          (j < Len(loop.st.chunks) \/ ~LoopDone) =>
             /\ Len(loop.st.chunks[j]) > ChunkThreshold
             /\ EndsOf(j) # {}
             /\ \A e \in EndsOf(j) :
                   Len(loop.st.chunks[j]) - Len(LoopLines[e]) <= ChunkThreshold
    /\ LoopDone =>
          /\ loop.st.current_chunk = ""
          /\ Len(loop.conv.messages) >= 1 =>
                /\ Len(loop.st.chunks) >= 1
                /\ Len(loop.conv.messages) \in EndsOf(Len(loop.st.chunks))

C7_Witness ==
    /\ LoopDone
    /\ Len(loop.st.chunks) = 2
    /\ 2 \in EndsOf(1)
    /\ Len(loop.st.chunks[2]) <= ChunkThreshold

\* C3: an ai_search_chats call with a non-empty query whose embedding call or
\* vector query fails returns an error (500) and no answer; one in which only
\* the Gemini call fails returns a successful response whose answer is the
\* raw context annotated with the error and whose sources hold each retrieved
\* url once.
C3_SearchFailures ==
    (search.called /\ search.query # "") =>
        /\ search.fault # "none" =>
              /\ search.response.status_code = 500
              /\ "answer" \notin DOMAIN search.response
        /\ (search.fault = "none" /\ search.llm = "error") =>
              /\ search.response.status_code = 200
              /\ search.response.answer =
                    "Error generating answer with Gemini: " \o GenaiError
                        \o ". Raw context:\n"
                        \o Join("\n---\n", DocumentsOf(search.results))
              /\ LET src == search.response.sources
                 IN  /\ \A a, b \in 1..Len(src) : a # b => src[a].url # src[b].url
                     /\ {src[k].url : k \in 1..Len(src)} =
                           {search.results[k].metadata.url :
                               k \in 1..Len(search.results)}

C3_Witness ==
    /\ search.called
    /\ search.llm = "error"
    /\ Len(search.results) > Len(search.response.sources)
    /\ Len(search.response.sources) = 2

\* C4: the sources hold exactly one entry per distinct, non-empty url of the
\* retrieved metadata, in order of first occurrence, and no entry whose url
\* is empty or missing.
C4_SourcesDistinctNonEmpty ==
    Retrieved =>
        LET metas == MetadatasOf(search.results)
            src == search.response.sources
        IN  /\ \A a, b \in 1..Len(src) : a # b => src[a].url # src[b].url
            /\ {src[k].url : k \in 1..Len(src)} =
                  {metas[k].url : k \in 1..Len(metas)} \ {"", None}
            /\ \A a, b \in 1..Len(src) :
                  a < b => FirstAt(metas, src[a].url) < FirstAt(metas, src[b].url)
            /\ \A k \in 1..Len(src) : src[k].url \notin {"", None}

\* C8 as stated: a call whose collection_filter is the collection of no
\* record returns the canned answer with no sources, without calling Gemini.
C8_AnyFilterMatchingNothing ==
    (/\ search.called
     /\ search.query # ""
     /\ search.fault = "none"
     /\ search.collection_filter # None
     /\ \A rec \in vector_collection :
           rec.metadata.collection # search.collection_filter) =>
        /\ search.response = Answer(NoInfoAnswer, <<>>)
        /\ search.llm = "not called"

\* C8: a call with a non-empty query and a non-empty collection_filter that
\* is the collection of no record, whose embedding call and vector query
\* succeed, returns the canned answer with no sources, without calling
\* Gemini, whatever other records the index holds.
C8_NonEmptyFilterMatchingNothing ==
    (/\ search.called
     /\ search.query # ""
     /\ search.fault = "none"
     /\ Truthy(search.collection_filter)
     /\ \A rec \in vector_collection :
           rec.metadata.collection # search.collection_filter) =>
        /\ search.response = Answer(NoInfoAnswer, <<>>)
        /\ search.llm = "not called"

C8_Witness ==
    /\ search.called
    /\ search.query # ""
    /\ search.fault = "none"
    /\ search.collection_filter = "SQL"
    /\ vector_collection # {}
    /\ \A rec \in vector_collection : rec.metadata.collection # "SQL"
    /\ search.response = Answer(NoInfoAnswer, <<>>)

====
